---- MODULE Spec2Model ----
(***************************************************************************)
(* Model of the OAuth exchange flow, the session-token issuer and the      *)
(* in-memory Identity / Upstream Token Record stores of the Allervie       *)
(* FastAPI backend.  The repository holds two parallel implementations of  *)
(* the web flow: app/api/routes/auth.py (mounted by app/main.py) and       *)
(* app/api/endpoints/auth.py (mounted by main.py through api/routers.py).  *)
(* Both share the stores and the token functions of app/services/auth.py.  *)
(***************************************************************************)
EXTENDS Integers, Sequences, FiniteSets, TLC

(***************************************************************************)
(* Python values.  None is Python's None, Absent a key a dict does not     *)
(* hold; both are kept apart from every real string.                       *)
(***************************************************************************)
None == "<None>"
Absent == "<absent>"
AbsentInt == -1

\* Python truthiness of an Optional[str]: None and "" are falsy.
Truthy(x) == x # None /\ x # ""

\* str(x) as an f-string renders it: None becomes the text "None".
Str(x) == IF x = None THEN "None" ELSE x

\* dict.get(key, default) on a field that may be absent.
DictGet(v, default) == IF v = Absent THEN default ELSE v
DictGetInt(v, default) == IF v = AbsentInt THEN default ELSE v

(***************************************************************************)
(* Configuration (app/core/config.py).                                     *)
(***************************************************************************)
ACCESS_TOKEN_EXPIRE_MINUTES == 1440
SECRET_KEY == "allervie-dashboard-secret-key"
ALGORITHM == "HS256"
\* settings.FRONTEND_URL, read by routes/auth.py; its default is the
\* FRONTEND_URL default of CORS_ORIGINS.
FRONTEND_URL == "http://localhost:3000"
Environments == {"development", "production"}

(***************************************************************************)
(* Bounds of the model.                                                    *)
(***************************************************************************)
\* The clock (minutes) stops advancing at MaxClock.
MaxClock == 2880
\* The clock advances in steps of one session lifetime.
TickStep == ACCESS_TOKEN_EXPIRE_MINUTES

(***************************************************************************)
(* Inputs drawn by the environment.                                        *)
(***************************************************************************)
Impls == {"routes", "endpoints"}
\* anti-forgery states the provider library generates at login
GeneratedStates == {"abc"}
\* `state`, `code`, `error` query parameters of a callback
StateParams == {None, "abc", "xyz"}
CodeParams == {None, "code1"}
ErrorParams == {None, "access_denied"}

\* user_info dicts the provider's userinfo endpoint may return
Profiles ==
  { [id |-> "u1", name |-> "Ann", email |-> "ann@example.com", picture |-> "pic1"],
    [id |-> "u1", name |-> "Bob", email |-> Absent, picture |-> Absent],
    [id |-> Absent, name |-> "Ann", email |-> "ann@example.com", picture |-> "pic1"] }
NoProfile == [id |-> Absent, name |-> Absent, email |-> Absent, picture |-> Absent]

\* token dicts the provider's token endpoint may return
TokenDicts ==
  { [access_token |-> "at1", id_token |-> "idt1", expires_in |-> 3599],
    [access_token |-> "at2", id_token |-> Absent, expires_in |-> AbsentInt] }
NoTokenData == [access_token |-> Absent, id_token |-> Absent, expires_in |-> AbsentInt]

\* random.randint(1000000, 9999999) of the endpoints callback
RandomIds == {"1000000", "9999999"}

VARIABLES
  app,          \* the application the process serves: app/main.py mounts the
                \* routes, main.py (through api/routers.py) the endpoints
  ENVIRONMENT,  \* settings.ENVIRONMENT, fixed at start-up
  now,          \* datetime.utcnow(), in minutes
  USERS,        \* services/auth.py USERS: user_id -> Identity
  TOKENS,       \* services/auth.py TOKENS: user_id -> Upstream Token Record
  jar,          \* the browser's oauth_state cookie
  flow,         \* the callback executions in flight, one per worker
  resp          \* the response of the last request that completed

vars == <<app, ENVIRONMENT, now, USERS, TOKENS, jar, flow, resp>>

(***************************************************************************)
(* Identities.                                                             *)
(***************************************************************************)
\* f"google-oauth2|{x}"
NamespacedId(x) == "google-oauth2|" \o Str(x)
NoUserId == None
MockUserId == NamespacedId("123456789")

\* the USERS literal of services/auth.py
InitialUsers ==
  [k \in {MockUserId} |->
     [id |-> MockUserId, name |-> "Test User", email |-> "test@example.com",
      picture |-> "https://ui-avatars.com/api/?name=Test+User&background=0D8ABC&color=fff"]]

NoUser == [id |-> NoUserId, name |-> None, email |-> None, picture |-> None]

\* d[k] = v as Python's dict assignment: insert or overwrite
DictSet(d, k, v) == [x \in DOMAIN d \cup {k} |-> IF x = k THEN v ELSE d[x]]

(***************************************************************************)
(* The browser's cookie jar entry for oauth_state.                         *)
(***************************************************************************)
NoMaxAge == -1
NoCookie ==
  [value |-> None, httponly |-> FALSE, max_age |-> NoMaxAge, secure |-> FALSE,
   samesite |-> "lax", set_at |-> 0]

\* The cookie the browser sends with a request at the current time: a cookie
\* with a max-age (seconds) is dropped once that many seconds have passed.
CookieSent ==
  IF jar.value = None THEN None
  ELSE IF jar.max_age # NoMaxAge /\ now * 60 >= jar.set_at * 60 + jar.max_age THEN None
  ELSE jar.value

(***************************************************************************)
(* Session tokens (python-jose).  A token carries its claims and an HMAC   *)
(* over them; the signature is modelled as the triple of the signing key   *)
(* and the signed claims, so a token signed by another key, or whose       *)
(* claims were changed after signing, does not verify.                     *)
(***************************************************************************)
Sign(key, sub, exp) == <<key, sub, exp>>

\* jwt.encode(claims, key, algorithm=ALGORITHM)
jwt_encode(claims, key) ==
  [kind |-> "jwt", sub |-> claims.sub, exp |-> claims.exp,
   sig |-> Sign(key, claims.sub, claims.exp), raw |-> None]

NoToken == [kind |-> "none", sub |-> None, exp |-> 0, sig |-> Sign("", None, 0), raw |-> None]

\* A string that is no JWT at all: an upstream access token or garbage.
OpaqueToken(s) == [kind |-> "opaque", sub |-> None, exp |-> 0, sig |-> Sign("", None, 0), raw |-> s]

\* jwt.decode(token, key, algorithms=[ALGORITHM]) at time `clock`: the payload,
\* or JWTError for a malformed token, a signature that does not match, or an
\* expiry in the past (jose raises ExpiredSignatureError when exp < now).
jwt_decode(token, key, clock) ==
  IF token.kind # "jwt" THEN [ok |-> FALSE, err |-> "malformed", sub |-> None]
  ELSE IF token.sig # Sign(key, token.sub, token.exp)
       THEN [ok |-> FALSE, err |-> "signature", sub |-> None]
  ELSE IF token.exp < clock THEN [ok |-> FALSE, err |-> "expired", sub |-> None]
  ELSE [ok |-> TRUE, err |-> None, sub |-> token.sub]

\* Optional[timedelta]: None, or timedelta(minutes=m)
NoDelta == [none |-> TRUE, minutes |-> 0]
timedelta(m) == [none |-> FALSE, minutes |-> m]
\* bool(expires_delta): None is falsy, and so is timedelta(0)
TruthyDelta(d) == ~d.none /\ d.minutes # 0

\* an issuer that gives every token the configured lifetime
create_access_token_configured_lifetime(data, expires_delta, utcnow) ==
  jwt_encode([sub |-> data.sub, exp |-> utcnow + ACCESS_TOKEN_EXPIRE_MINUTES], SECRET_KEY)

\* services/auth.py create_access_token(data, expires_delta) called at utcnow
create_access_token(data, expires_delta, utcnow) ==
  LET expire == IF TruthyDelta(expires_delta)
                THEN utcnow + expires_delta.minutes
                ELSE utcnow + ACCESS_TOKEN_EXPIRE_MINUTES
  IN jwt_encode([sub |-> data.sub, exp |-> expire], SECRET_KEY)

\* services/auth_service.py AuthService.create_access_token
AuthService_create_access_token(data, expires_delta, utcnow) ==
  LET expire == IF TruthyDelta(expires_delta)
                THEN utcnow + expires_delta.minutes
                ELSE utcnow + ACCESS_TOKEN_EXPIRE_MINUTES
  IN jwt_encode([sub |-> data.sub, exp |-> expire], SECRET_KEY)

(***************************************************************************)
(* Callback executions.                                                    *)
(***************************************************************************)
Procs == {"w1"}

\* exchange_result, profile_result: "not_called", or how the call ended:
\* "dict" (a non-empty dict), "none" (a falsy value) or "raise"
IdleFlow ==
  [pc |-> "idle", code |-> None, state |-> None, error |-> None, oauth_state |-> None,
   token_data |-> NoTokenData, user_info |-> NoProfile,
   exchange_calls |-> 0, exchange_result |-> "not_called",
   profile_calls |-> 0, profile_result |-> "not_called"]

NoResp == [op |-> "none"]

\* The response of a callback, with the request it answers and what the
\* execution did (was_known: USERS held user_id before this execution wrote).
\*   kind: "redirect", "html" (an HTML error page) or "500" (an exception left
\*   the handler and app/main.py's general_exception_handler answered)
CallbackResp(impl, f, kind, base, path, reason, token, user_id, cleared, access_cookie) ==
  [op |-> "callback", impl |-> impl,
   code |-> f.code, state |-> f.state, error |-> f.error, oauth_state |-> f.oauth_state,
   kind |-> kind, base |-> base, path |-> path, reason |-> reason,
   token |-> token, user_id |-> user_id,
   cookie_cleared |-> cleared, access_cookie |-> access_cookie,
   token_data |-> f.token_data, user_info |-> f.user_info, was_known |-> user_id \in DOMAIN USERS,
   exchange_calls |-> f.exchange_calls, exchange_result |-> f.exchange_result,
   profile_calls |-> f.profile_calls, profile_result |-> f.profile_result]

\* RedirectResponse(f"{settings.FRONTEND_URL}/login?error={reason}")
LoginErrorRedirect(impl, f, reason) ==
  CallbackResp(impl, f, "redirect", FRONTEND_URL, "/login", reason, NoToken, NoUserId,
               FALSE, Absent)

Init ==
  /\ app \in Impls
  /\ ENVIRONMENT \in Environments
  /\ now = 0
  /\ USERS = InitialUsers
  /\ TOKENS = << >>
  /\ jar = NoCookie
  /\ flow = [p \in Procs |-> IdleFlow]
  /\ resp = NoResp

\* Time passes.
Tick ==
  /\ now + TickStep <= MaxClock
  /\ now' = now + TickStep
  /\ UNCHANGED <<app, ENVIRONMENT, USERS, TOKENS, jar, flow, resp>>

(***************************************************************************)
(* Login initiation.                                                       *)
(***************************************************************************)
\* routes/auth.py login: JSON {auth_url} and the state in a cookie
routes_login(st) ==
  /\ app = "routes"
  /\ jar' = [value |-> st, httponly |-> TRUE, max_age |-> 600,
             secure |-> (ENVIRONMENT = "production"), samesite |-> "lax", set_at |-> now]
  /\ resp' = [op |-> "login", impl |-> "routes", kind |-> "json", state |-> st]
  /\ UNCHANGED <<app, ENVIRONMENT, now, USERS, TOKENS, flow>>

\* endpoints/auth.py login: a redirect to the provider, the state in a cookie
\* set with httponly alone; an HTML error page when the flow cannot be created
endpoints_login(st, flow_ok) ==
  /\ app = "endpoints"
  /\ IF flow_ok
     THEN /\ jar' = [value |-> st, httponly |-> TRUE, max_age |-> NoMaxAge,
                     secure |-> FALSE, samesite |-> "lax", set_at |-> now]
          /\ resp' = [op |-> "login", impl |-> "endpoints", kind |-> "redirect", state |-> st]
     ELSE /\ jar' = jar
          /\ resp' = [op |-> "login", impl |-> "endpoints", kind |-> "html", state |-> None]
  /\ UNCHANGED <<app, ENVIRONMENT, now, USERS, TOKENS, flow>>

Login ==
  \E st \in GeneratedStates :
    \/ routes_login(st)
    \/ \E flow_ok \in BOOLEAN : endpoints_login(st, flow_ok)

(***************************************************************************)
(* The callback of routes/auth.py.  It suspends at its two awaits, so it   *)
(* is three steps: up to the token exchange, from the exchange's result to *)
(* the profile fetch, and from the profile to the response.                *)
(***************************************************************************)
Request(code, state, error) ==
  [IdleFlow EXCEPT !.code = code, !.state = state, !.error = error,
                   !.oauth_state = CookieSent]

\* a callback that compares the state before it looks for the code
routes_callback_start_state_first(p, code, state, error) ==
  LET f == Request(code, state, error) IN
  /\ app = "routes"
  /\ flow[p].pc = "idle"
  /\ IF Truthy(error)
     THEN /\ resp' = LoginErrorRedirect("routes", f, error)
          /\ flow' = flow
     ELSE IF ~Truthy(state) \/ ~Truthy(f.oauth_state) \/ state # f.oauth_state
     THEN /\ resp' = LoginErrorRedirect("routes", f, "invalid_state")
          /\ flow' = flow
     ELSE IF ~Truthy(code)
     THEN /\ resp' = LoginErrorRedirect("routes", f, "missing_code")
          /\ flow' = flow
     ELSE /\ flow' = [flow EXCEPT ![p] = [f EXCEPT !.pc = "exchanging", !.exchange_calls = 1]]
          /\ resp' = resp
  /\ UNCHANGED <<app, ENVIRONMENT, now, USERS, TOKENS, jar>>

\* routes/auth.py callback, lines 101-123: the precondition checks
routes_callback_start(p, code, state, error) ==
  LET f == Request(code, state, error) IN
  /\ app = "routes"
  /\ flow[p].pc = "idle"
  /\ IF Truthy(error)
     THEN /\ resp' = LoginErrorRedirect("routes", f, error)
          /\ flow' = flow
     ELSE IF ~Truthy(code)
     THEN /\ resp' = LoginErrorRedirect("routes", f, "missing_code")
          /\ flow' = flow
     ELSE IF ~Truthy(state) \/ ~Truthy(f.oauth_state) \/ state # f.oauth_state
     THEN /\ resp' = LoginErrorRedirect("routes", f, "invalid_state")
          /\ flow' = flow
     ELSE /\ flow' = [flow EXCEPT ![p] = [f EXCEPT !.pc = "exchanging", !.exchange_calls = 1]]
          /\ resp' = resp
  /\ UNCHANGED <<app, ENVIRONMENT, now, USERS, TOKENS, jar>>

\* The results of `await exchange_code_for_tokens(code)`: a token dict, a
\* falsy value, or an exception (AuthService.exchange_code_for_tokens logs
\* and re-raises whatever the token endpoint raised).
ExchangeResults ==
  [kind : {"dict"}, data : TokenDicts] \cup [kind : {"none", "raise"}, data : {NoTokenData}]

\* The response when an exception leaves a handler: app/main.py's
\* general_exception_handler answers 500 "Internal server error".
UnhandledException(impl, f) ==
  CallbackResp(impl, f, "500", "", "", "Internal server error", NoToken, NoUserId,
               FALSE, Absent)

\* routes/auth.py callback, lines 123-132: the exchange returned
routes_callback_exchanged(p, r) ==
  LET f == [flow[p] EXCEPT !.exchange_result = r.kind] IN
  /\ f.pc = "exchanging"
  /\ IF r.kind = "raise"
     THEN /\ resp' = UnhandledException("routes", f)
          /\ flow' = [flow EXCEPT ![p] = IdleFlow]
     ELSE IF r.kind = "none"
     THEN /\ resp' = LoginErrorRedirect("routes", f, "token_exchange_failed")
          /\ flow' = [flow EXCEPT ![p] = IdleFlow]
     ELSE /\ flow' = [flow EXCEPT ![p] = [f EXCEPT !.pc = "resolving", !.token_data = r.data,
                                                   !.profile_calls = 1]]
          /\ resp' = resp
  /\ UNCHANGED <<app, ENVIRONMENT, now, USERS, TOKENS, jar>>

\* The results of `await get_user_info(access_token)`: a user_info dict, a
\* falsy value, or an exception (AuthService.get_user_info raises on a
\* non-200 answer and returns response.json() as it came otherwise).
UserInfoResults ==
  [kind : {"dict"}, info : Profiles] \cup [kind : {"none", "raise"}, info : {NoProfile}]

\* routes_identity as it would be if the callback only created an Identity
\* that is not yet stored (as verify_google_token does)
routes_identity_create_only(user_id, user_info) ==
  IF user_id \in DOMAIN USERS THEN USERS[user_id]
  ELSE [id |-> user_id,
        name |-> DictGet(user_info.name, "Unknown User"),
        email |-> DictGet(user_info.email, "unknown@example.com"),
        picture |-> DictGet(user_info.picture, None)]

\* routes/auth.py callback, lines 144-149: the Identity built from user_info
routes_identity(user_id, user_info) ==
  [id |-> user_id,
   name |-> DictGet(user_info.name, "Unknown User"),
   email |-> DictGet(user_info.email, "unknown@example.com"),
   picture |-> DictGet(user_info.picture, None)]

\* routes/auth.py callback, lines 152-156: the Upstream Token Record
routes_token_record(token_data) ==
  [access_token |-> token_data.access_token,
   id_token |-> DictGet(token_data.id_token, None),
   expires_in |-> DictGetInt(token_data.expires_in, 3600)]

\* a callback that stores the exchanged token data before it looks at the
\* outcome of the profile fetch
routes_callback_resolved_storing_early(p, r) ==
  LET f == [flow[p] EXCEPT !.profile_result = r.kind, !.user_info = r.info]
      user_id == NamespacedId(DictGet(r.info.id, None))
      access_token == create_access_token([sub |-> user_id],
                                          timedelta(ACCESS_TOKEN_EXPIRE_MINUTES), now)
  IN
  /\ f.pc = "resolving"
  /\ flow' = [flow EXCEPT ![p] = IdleFlow]
  /\ TOKENS' = DictSet(TOKENS, user_id, routes_token_record(f.token_data))
  /\ IF r.kind = "raise"
     THEN /\ resp' = UnhandledException("routes", f)
          /\ UNCHANGED <<USERS, jar>>
     ELSE IF r.kind = "none"
     THEN /\ resp' = LoginErrorRedirect("routes", f, "user_info_failed")
          /\ UNCHANGED <<USERS, jar>>
     ELSE /\ USERS' = DictSet(USERS, user_id, routes_identity(user_id, r.info))
          /\ resp' = CallbackResp("routes", f, "redirect", FRONTEND_URL, "/dashboard", None,
                                  access_token, user_id, TRUE, Absent)
          /\ jar' = NoCookie
  /\ UNCHANGED <<app, ENVIRONMENT, now>>

\* a callback that stores its profile with the token data of another
\* execution in flight, when there is one
routes_callback_resolved_mixing(p, r) ==
  LET f == [flow[p] EXCEPT !.profile_result = r.kind, !.user_info = r.info]
      user_id == NamespacedId(DictGet(r.info.id, None))
      access_token == create_access_token([sub |-> user_id],
                                          timedelta(ACCESS_TOKEN_EXPIRE_MINUTES), now)
      others == {q \in DOMAIN flow : q # p /\ flow[q].pc = "resolving"}
      token_data == IF others = {} THEN f.token_data
                    ELSE flow[CHOOSE q \in others : TRUE].token_data
  IN
  /\ f.pc = "resolving"
  /\ flow' = [flow EXCEPT ![p] = IdleFlow]
  /\ IF r.kind = "raise"
     THEN /\ resp' = UnhandledException("routes", f)
          /\ UNCHANGED <<USERS, TOKENS, jar>>
     ELSE IF r.kind = "none"
     THEN /\ resp' = LoginErrorRedirect("routes", f, "user_info_failed")
          /\ UNCHANGED <<USERS, TOKENS, jar>>
     ELSE /\ USERS' = DictSet(USERS, user_id, routes_identity(user_id, r.info))
          /\ TOKENS' = DictSet(TOKENS, user_id, routes_token_record(token_data))
          /\ resp' = CallbackResp("routes", f, "redirect", FRONTEND_URL, "/dashboard", None,
                                  access_token, user_id, TRUE, Absent)
          /\ jar' = NoCookie
  /\ UNCHANGED <<app, ENVIRONMENT, now>>

\* routes/auth.py callback, lines 132-175: the profile fetch returned
routes_callback_resolved(p, r) ==
  LET f == [flow[p] EXCEPT !.profile_result = r.kind, !.user_info = r.info]
      user_id == NamespacedId(DictGet(r.info.id, None))
      access_token == create_access_token([sub |-> user_id],
                                          timedelta(ACCESS_TOKEN_EXPIRE_MINUTES), now)
  IN
  /\ f.pc = "resolving"
  /\ flow' = [flow EXCEPT ![p] = IdleFlow]
  /\ IF r.kind = "raise"
     THEN /\ resp' = UnhandledException("routes", f)
          /\ UNCHANGED <<USERS, TOKENS, jar>>
     ELSE IF r.kind = "none"
     THEN /\ resp' = LoginErrorRedirect("routes", f, "user_info_failed")
          /\ UNCHANGED <<USERS, TOKENS, jar>>
     ELSE /\ USERS' = DictSet(USERS, user_id, routes_identity(user_id, r.info))
          /\ TOKENS' = DictSet(TOKENS, user_id, routes_token_record(f.token_data))
          /\ resp' = CallbackResp("routes", f, "redirect", FRONTEND_URL, "/dashboard", None,
                                  access_token, user_id, TRUE, Absent)
          /\ jar' = NoCookie
  /\ UNCHANGED <<app, ENVIRONMENT, now>>

(***************************************************************************)
(* The callback of endpoints/auth.py.  Its calls are synchronous           *)
(* (flow.fetch_token blocks), so the handler is one step.                  *)
(***************************************************************************)
\* An HTML error page, the answer of every failure of the endpoints callback
HtmlError(f, reason) ==
  CallbackResp("endpoints", f, "html", "", "", reason, NoToken, NoUserId, FALSE, Absent)

\* The results of flow.fetch_token(code=code): credentials, or an exception
FetchTokenResults ==
  [kind : {"dict"}, data : TokenDicts] \cup [kind : {"raise"}, data : {NoTokenData}]

\* endpoints/auth.py callback, lines 152-156: the Upstream Token Record
endpoints_token_record(user_id, creds) ==
  [access_token |-> creds.access_token, id_token |-> user_id, expires_in |-> 3600]

\* endpoints/auth.py callback, lines 134-184: the try block.  flow_ok:
\* create_oauth_flow() found the client secret; r: the result of fetch_token;
\* rnd: the random user id.
endpoints_callback_try(f, flow_ok, r, rnd) ==
  LET called == [f EXCEPT !.exchange_calls = 1, !.exchange_result = r.kind]
      user_id == NamespacedId(rnd)
  IN
  IF ~flow_ok
  THEN /\ resp' = HtmlError(f, "OAuth Callback Error")
       /\ TOKENS' = TOKENS
  ELSE IF r.kind = "raise"
  THEN /\ resp' = HtmlError(called, "OAuth Callback Error")
       /\ TOKENS' = TOKENS
  ELSE /\ TOKENS' = DictSet(TOKENS, user_id, endpoints_token_record(user_id, r.data))
       /\ resp' = CallbackResp("endpoints", called, "redirect", "", "/dashboard", None,
                               NoToken, user_id, FALSE, r.data.access_token)

\* endpoints/auth.py callback
endpoints_callback(code, state, error) ==
  LET f == Request(code, state, error) IN
  /\ app = "endpoints"
  /\ IF Truthy(error)
     THEN /\ resp' = HtmlError(f, error)
          /\ TOKENS' = TOKENS
     ELSE IF ~Truthy(code)
     THEN /\ resp' = HtmlError(f, "No authorization code received.")
          /\ TOKENS' = TOKENS
     \* a state that differs from the cookie is logged and the handler goes on
     ELSE \E flow_ok \in BOOLEAN, r \in FetchTokenResults, rnd \in RandomIds :
            endpoints_callback_try(f, flow_ok, r, rnd)
  /\ UNCHANGED <<app, ENVIRONMENT, now, USERS, jar, flow>>

Callback ==
  \/ \E p \in Procs, code \in CodeParams, state \in StateParams, error \in ErrorParams :
       routes_callback_start(p, code, state, error)
  \/ \E p \in Procs, r \in ExchangeResults : routes_callback_exchanged(p, r)
  \/ \E p \in Procs, r \in UserInfoResults : routes_callback_resolved(p, r)
  \/ \E code \in CodeParams, state \in StateParams, error \in ErrorParams :
       endpoints_callback(code, state, error)

(***************************************************************************)
(* Verify: services/auth.py get_current_user behind the verify routes.     *)
(***************************************************************************)
\* The answers of the provider's userinfo endpoint to a bearer token: a
\* user_info dict for an upstream access token (or an error, once revoked),
\* an error for anything else.
UpstreamAccessTokens == {t.access_token : t \in TokenDicts}
UserinfoAnswers(token) ==
  IF token.kind = "opaque" /\ token.raw \in UpstreamAccessTokens
  THEN [kind : {"dict"}, info : Profiles] \cup [kind : {"raise"}, info : {NoProfile}]
  ELSE [kind : {"raise"}, info : {NoProfile}]

\* services/auth.py verify_google_token, lines 133-138: the Identity it adds
google_identity(user_id, user_info) ==
  [id |-> user_id,
   name |-> DictGet(user_info.name, "Google User"),
   email |-> DictGet(user_info.email, "unknown@example.com"),
   picture |-> DictGet(user_info.picture, "")]

\* a verify_google_token that stores the provider's profile on every call
verify_google_token_overwriting(users, g) ==
  IF g.kind = "raise" \/ g.info.id = Absent
  THEN [user |-> NoUser, users |-> users]
  ELSE LET user_id == NamespacedId(g.info.id)
           stored == DictSet(users, user_id, google_identity(user_id, g.info))
       IN [user |-> stored[user_id], users |-> stored]

\* services/auth.py verify_google_token(token), g the provider's answer:
\* the user returned (NoUser for None) and the USERS store it leaves.
\* user_info['id'] raises KeyError when the id is absent; every exception
\* is caught and None returned.
verify_google_token(users, g) ==
  IF g.kind = "raise" \/ g.info.id = Absent
  THEN [user |-> NoUser, users |-> users]
  ELSE LET user_id == NamespacedId(g.info.id)
           stored == IF user_id \in DOMAIN users THEN users
                     ELSE DictSet(users, user_id, google_identity(user_id, g.info))
       IN [user |-> stored[user_id], users |-> stored]

\* a get_current_user that asks the identity provider whenever it has no
\* user to return, whatever the local verification said
get_current_user_asking_upstream(token, users, g, clock) ==
  LET payload == jwt_decode(token, SECRET_KEY, clock)
      v == verify_google_token(users, g)
  IN IF payload.ok /\ payload.sub # None /\ payload.sub \in DOMAIN users
     THEN [raised |-> FALSE, user |-> users[payload.sub], users |-> users,
           jwt_error |-> payload.err, upstream_calls |-> 0]
     ELSE [raised |-> v.user = NoUser, user |-> v.user, users |-> v.users,
           jwt_error |-> payload.err, upstream_calls |-> 1]

\* services/auth.py get_current_user(token): the user it returns, or the
\* HTTPException(401) it raises, and the USERS store it leaves (jwt_error:
\* the JWTError of the local verification, None when it passed;
\* upstream_calls: the calls of verify_google_token it made).
get_current_user(token, users, g, clock) ==
  LET payload == jwt_decode(token, SECRET_KEY, clock)
      Unauthorized(u, calls) ==
        [raised |-> TRUE, user |-> NoUser, users |-> u, jwt_error |-> payload.err,
         upstream_calls |-> calls]
      Return(user, u, calls) ==
        [raised |-> FALSE, user |-> user, users |-> u, jwt_error |-> payload.err,
         upstream_calls |-> calls]
  IN IF payload.ok
     THEN IF payload.sub = None THEN Unauthorized(users, 0)
          ELSE IF payload.sub \notin DOMAIN users THEN Unauthorized(users, 0)
          ELSE Return(users[payload.sub], users, 0)
     ELSE LET v == verify_google_token(users, g)
          IN IF v.user # NoUser
             THEN Return(v.user, v.users, 1)
             ELSE Unauthorized(v.users, 1)

\* The response of a verify route.  When the dependency raises, FastAPI
\* answers 401 with the exception's detail and the handler body never runs.
\*   routes/auth.py verify: VerifyResponse(isAuthenticated=True, user=...)
\*   endpoints/auth.py verify: the User
VerifyResp(impl, token, r) ==
  IF r.raised
  THEN [op |-> "verify", impl |-> impl, token |-> token, status |-> 401, raised |-> TRUE,
        jwt_error |-> r.jwt_error, upstream_calls |-> r.upstream_calls,
        isAuthenticated |-> Absent, user |-> NoUser,
        error |-> "Could not validate credentials"]
  ELSE [op |-> "verify", impl |-> impl, token |-> token, status |-> 200, raised |-> FALSE,
        jwt_error |-> r.jwt_error, upstream_calls |-> r.upstream_calls,
        isAuthenticated |-> IF impl = "routes" THEN "true" ELSE Absent,
        user |-> r.user, error |-> None]

\* bearer tokens a client may present
IssuedAt == 0
VerifyTokens ==
  { create_access_token([sub |-> NamespacedId("u1")], timedelta(ACCESS_TOKEN_EXPIRE_MINUTES), IssuedAt),
    create_access_token([sub |-> MockUserId], timedelta(ACCESS_TOKEN_EXPIRE_MINUTES), IssuedAt),
    \* signed by this system, but without a subject
    jwt_encode([sub |-> None, exp |-> MaxClock], SECRET_KEY),
    \* signed with another key
    jwt_encode([sub |-> MockUserId, exp |-> MaxClock], "attacker-key"),
    \* the subject changed after signing
    [jwt_encode([sub |-> NamespacedId("u1"), exp |-> MaxClock], SECRET_KEY)
       EXCEPT !.sub = MockUserId],
    \* no JWT at all
    OpaqueToken("at1"),
    OpaqueToken("garbage") }

\* the token of the last response, when it carried one
LastToken ==
  IF resp.op \in {"callback", "mock_token"} /\ resp.token.kind = "jwt" THEN {resp.token} ELSE {}

Verify ==
  \E token \in VerifyTokens \cup LastToken :
    \E g \in UserinfoAnswers(token) :
      LET r == get_current_user(token, USERS, g, now) IN
      /\ USERS' = r.users
      /\ resp' = VerifyResp(app, token, r)
      /\ UNCHANGED <<app, ENVIRONMENT, now, TOKENS, jar, flow>>

(***************************************************************************)
(* Mock/test token issuance.                                               *)
(***************************************************************************)
\* secrets.token_hex(8)
TokenHexes == {"00000000000000aa", "00000000000000bb"}

Forbidden(impl) ==
  [op |-> "mock_token", impl |-> impl, status |-> 403, token |-> NoToken, user_id |-> NoUserId]

\* routes/auth.py mock_token
routes_mock_token(hex) ==
  LET user_id == MockUserId
      token_data == [access_token |-> "mock-token-" \o hex, id_token |-> user_id,
                     expires_in |-> 3600]
      access_token == create_access_token([sub |-> user_id],
                                          timedelta(ACCESS_TOKEN_EXPIRE_MINUTES), now)
  IN
  /\ app = "routes"
  /\ IF ENVIRONMENT = "production"
     THEN /\ resp' = Forbidden("routes")
          /\ TOKENS' = TOKENS
     ELSE /\ TOKENS' = DictSet(TOKENS, user_id, token_data)
          /\ resp' = [op |-> "mock_token", impl |-> "routes", status |-> 200,
                      token |-> access_token, user_id |-> user_id]
  /\ UNCHANGED <<app, ENVIRONMENT, now, USERS, jar, flow>>

\* endpoints/auth.py mock_token: always 403
endpoints_mock_token ==
  /\ app = "endpoints"
  /\ resp' = Forbidden("endpoints")
  /\ UNCHANGED <<app, ENVIRONMENT, now, USERS, TOKENS, jar, flow>>

MockToken ==
  \/ \E hex \in TokenHexes : routes_mock_token(hex)
  \/ endpoints_mock_token

Next == Login \/ Callback \/ Verify \/ MockToken \/ Tick

Spec == Init /\ [][Next]_vars

(***************************************************************************)
(* Two callbacks of routes/auth.py in flight at once: the event loop runs  *)
(* one handler until it awaits (the token exchange, the profile fetch) and *)
(* may then run the other.                                                 *)
(***************************************************************************)
RaceProcs == {"w1", "w2"}

InitRace ==
  /\ app = "routes"
  /\ ENVIRONMENT \in Environments
  /\ now = 0
  /\ USERS = InitialUsers
  /\ TOKENS = << >>
  /\ jar = NoCookie
  /\ flow = [p \in RaceProcs |-> IdleFlow]
  /\ resp = NoResp

RaceLogin == \E st \in GeneratedStates : routes_login(st)
RaceStart ==
  \E p \in RaceProcs, code \in CodeParams, state \in StateParams, error \in ErrorParams :
    routes_callback_start(p, code, state, error)
RaceExchanged == \E p \in RaceProcs, r \in ExchangeResults : routes_callback_exchanged(p, r)
RaceResolved == \E p \in RaceProcs, r \in UserInfoResults : routes_callback_resolved(p, r)

NextRace == RaceLogin \/ RaceStart \/ RaceExchanged \/ RaceResolved \/ Tick

SpecRace == InitRace /\ [][NextRace]_vars

(***************************************************************************)
(* The token issuer on its own: create_access_token applied to every       *)
(* subject and lifetime of a bounded set, at every time of the clock.      *)
(***************************************************************************)
IssueSubjects == {MockUserId, NamespacedId("u1"), NamespacedId("u2")}
\* expires_delta: None, or a timedelta of that many minutes
IssueLifetimes == {NoDelta} \cup {timedelta(m) : m \in {0, 1, 30, ACCESS_TOKEN_EXPIRE_MINUTES}}
IssueFunctions == {"create_access_token", "AuthService.create_access_token"}

IssueCall(fn, sub, expires_delta) ==
  LET token == IF fn = "create_access_token"
               THEN create_access_token([sub |-> sub], expires_delta, now)
               ELSE AuthService_create_access_token([sub |-> sub], expires_delta, now)
  IN
  /\ resp' = [op |-> "issue", fn |-> fn, sub |-> sub, expires_delta |-> expires_delta,
              issued_at |-> now, token |-> token]
  /\ UNCHANGED <<app, ENVIRONMENT, now, USERS, TOKENS, jar, flow>>

Issue ==
  \E fn \in IssueFunctions, sub \in IssueSubjects, d \in IssueLifetimes : IssueCall(fn, sub, d)

NextIssue == Issue \/ Tick

SpecIssue == Init /\ [][NextIssue]_vars

(***************************************************************************)
(* Issue, then verify: a token of create_access_token is presented to      *)
(* get_current_user, at once or after time has passed.                     *)
(***************************************************************************)
\* Identity stores the round trip starts from: the initial one, and the one
\* after a callback of routes/auth.py stored a profile of u1
RoundTripStores ==
  {InitialUsers}
    \cup {DictSet(InitialUsers, NamespacedId("u1"), routes_identity(NamespacedId("u1"), i)) :
            i \in {q \in Profiles : q.id = "u1"}}

InitRoundTrip ==
  /\ app \in Impls
  /\ ENVIRONMENT \in Environments
  /\ now = 0
  /\ USERS \in RoundTripStores
  /\ TOKENS = << >>
  /\ jar = NoCookie
  /\ flow = [p \in Procs |-> IdleFlow]
  /\ resp = NoResp

\* create_access_token(data={"sub": sub}, expires_delta=...) at the present time
RoundTripIssue ==
  \E sub \in IssueSubjects, d \in IssueLifetimes :
    /\ resp' = [op |-> "issue", fn |-> "create_access_token", sub |-> sub,
                expires_delta |-> d, issued_at |-> now,
                token |-> create_access_token([sub |-> sub], d, now)]
    /\ UNCHANGED <<app, ENVIRONMENT, now, USERS, TOKENS, jar, flow>>

\* get_current_user(token) for the token issued last
RoundTripVerify ==
  /\ resp.op \in {"issue", "round_trip"}
  /\ \E g \in UserinfoAnswers(resp.token) :
       LET r == get_current_user(resp.token, USERS, g, now) IN
       /\ USERS' = r.users
       /\ resp' = [op |-> "round_trip", fn |-> resp.fn, sub |-> resp.sub,
                   expires_delta |-> resp.expires_delta, issued_at |-> resp.issued_at,
                   token |-> resp.token, verified_at |-> now,
                   raised |-> r.raised, user |-> r.user, stored |-> USERS]
  /\ UNCHANGED <<app, ENVIRONMENT, now, TOKENS, jar, flow>>

NextRoundTrip == RoundTripIssue \/ RoundTripVerify \/ Tick

SpecRoundTrip == InitRoundTrip /\ [][NextRoundTrip]_vars

(***************************************************************************)
(* Properties.                                                             *)
(***************************************************************************)
IsCallback == resp.op = "callback"
\* the callback answered with its success redirect
Succeeded == IsCallback /\ resp.kind = "redirect" /\ resp.path = "/dashboard"
\* the callback answered with the redirect to the login page naming `reason`
FailedWith(reason) ==
  /\ IsCallback /\ resp.kind = "redirect"
  /\ resp.base = FRONTEND_URL /\ resp.path = "/login" /\ resp.reason = reason
\* the request passed the checks of `error` and `code`
ReachedStateCheck == IsCallback /\ ~Truthy(resp.error) /\ Truthy(resp.code)

\* C1: in every callback handler, a `state` parameter that differs from the
\* oauth_state cookie ends the flow in the state-mismatch failure, and the
\* token exchange is never invoked in that execution.
C1_StateMismatchNeverExchanges ==
  /\ (ReachedStateCheck /\ resp.state # resp.oauth_state)
       => (FailedWith("invalid_state") /\ resp.exchange_calls = 0)
  /\ \A p \in Procs : flow[p].exchange_calls > 0 => flow[p].state = flow[p].oauth_state

\* C2: a callback that carries an `error` parameter is answered with a
\* redirect to {frontend}/login?error=<that error>, and no token exchange is
\* attempted, whatever code, state and the cookie are.
C2_ProviderErrorRedirectsToLogin ==
  (IsCallback /\ Truthy(resp.error))
    => (FailedWith(resp.error) /\ resp.exchange_calls = 0)

\* C3: when the anti-forgery cookie is absent (expired) as the callback
\* arrives, the callback ends with the state-mismatch failure and does not go
\* on to the token exchange, for every `state` parameter, an absent one too.
C3_MissingCookieFailsStateCheck ==
  /\ (ReachedStateCheck /\ resp.oauth_state = None)
       => (FailedWith("invalid_state") /\ resp.exchange_calls = 0)
  /\ \A p \in Procs : flow[p].exchange_calls > 0 => flow[p].oauth_state # None

\* C4: when the code-for-token exchange fails for any reason (an exception of
\* the exchange function included), the callback ends with the redirect to
\* the login page naming token_exchange_failed; no exception leaves the handler.
C4_ExchangeFailureIsNamed ==
  (IsCallback /\ resp.exchange_result \in {"none", "raise"})
    => FailedWith("token_exchange_failed")

\* C5: after a successful token exchange, a profile fetch that errors or
\* returns a profile without an id ends the callback with user_info_failed;
\* no Identity or token record is stored under an id built from a missing
\* upstream id, and no session token is issued for it.
C5_ProfileWithoutIdFails ==
  /\ (IsCallback /\ resp.exchange_result = "dict"
        /\ (resp.profile_result \in {"none", "raise"}
              \/ (resp.profile_result = "dict" /\ resp.user_info.id = Absent)))
       => (FailedWith("user_info_failed") /\ resp.token = NoToken)
  /\ NamespacedId(None) \notin DOMAIN USERS
  /\ NamespacedId(None) \notin DOMAIN TOKENS

\* C6: after a successful callback for upstream id X, USERS holds the fetched
\* profile under "google-oauth2|X", TOKENS holds a record under the same key,
\* and the response redirects to {frontend}/dashboard?token=T with T a session
\* token whose subject is "google-oauth2|X".
C6_SuccessStoresAndRedirects ==
  Succeeded =>
    /\ resp.base = FRONTEND_URL
    /\ resp.token.kind = "jwt"
    /\ jwt_decode(resp.token, SECRET_KEY, resp.token.exp).ok
    /\ resp.token.sub = resp.user_id
    /\ resp.user_id \in DOMAIN USERS
    /\ resp.user_id \in DOMAIN TOKENS
    /\ resp.profile_result = "dict"
    /\ resp.user_info.id # Absent =>
         /\ resp.user_id = "google-oauth2|" \o resp.user_info.id
         /\ USERS[resp.user_id].name = resp.user_info.name
         /\ TOKENS[resp.user_id].access_token = resp.token_data.access_token

\* C7: in every reachable state every key of TOKENS is a key of USERS.
C7_TokensHaveIdentity == DOMAIN TOKENS \subseteq DOMAIN USERS

\* the Identity a successful callback leaves: the fetched profile's fields,
\* spelled out (the handler's defaults where the profile carries none)
C8_Refreshed ==
  (Succeeded /\ resp.profile_result = "dict") =>
    /\ resp.user_id \in DOMAIN USERS
    /\ USERS[resp.user_id].id = resp.user_id
    /\ USERS[resp.user_id].name =
         (IF resp.user_info.name = Absent THEN "Unknown User" ELSE resp.user_info.name)
    /\ USERS[resp.user_id].email =
         (IF resp.user_info.email = Absent THEN "unknown@example.com" ELSE resp.user_info.email)
    /\ USERS[resp.user_id].picture =
         (IF resp.user_info.picture = Absent THEN None ELSE resp.user_info.picture)
\* C8: an Identity, once stored, is never removed, and every successful
\* callback that fetched a profile leaves under its external id the name,
\* email and picture of that profile (the handler's defaults for the fields
\* the profile does not carry), whatever was stored before.
C8_IdentityKeptAndRefreshed ==
  [][(DOMAIN USERS \subseteq DOMAIN USERS') /\ C8_Refreshed']_vars
\* a successful callback for an Identity that was already stored
C8_Witness ==
  /\ Succeeded /\ resp.impl = "routes" /\ resp.was_known
  /\ resp.user_info.name = "Bob" /\ USERS[resp.user_id].name = "Bob"

\* C9: for every call of create_access_token the expiry of the token is the
\* issue time plus the supplied lifetime, for every supplied lifetime >= 0,
\* and the issue time plus ACCESS_TOKEN_EXPIRE_MINUTES when none is supplied.
C9_ExpiryIsIssuePlusLifetime ==
  resp.op = "issue" =>
    /\ resp.expires_delta.none =>
         resp.token.exp = resp.issued_at + ACCESS_TOKEN_EXPIRE_MINUTES
    /\ (~resp.expires_delta.none /\ resp.expires_delta.minutes >= 0) =>
         resp.token.exp = resp.issued_at + resp.expires_delta.minutes

\* C10: verifying a token whose signature does not match, that is malformed
\* or that has expired (and that the provider does not accept either) yields
\* Invalid as a value: Verify answers isAuthenticated=false with an error and
\* nothing is raised; isAuthenticated=true comes only with a resolved user.
C10_InvalidTokenIsAValue ==
  resp.op = "verify" =>
    /\ (resp.jwt_error \in {"signature", "malformed", "expired"} /\ resp.user = NoUser)
         => (~resp.raised /\ resp.isAuthenticated = "false" /\ resp.error # None)
    /\ resp.isAuthenticated = "true" => resp.user # NoUser

\* services/auth_service.py AuthService.validate_token(token): the payload,
\* or None (ok = FALSE) on JWTError; it reads no store
AuthService_validate_token(token, clock) == jwt_decode(token, SECRET_KEY, clock)

\* a session token signed by this system (whatever its expiry)
LocallySigned(token) ==
  token.kind = "jwt" /\ jwt_decode(token, SECRET_KEY, 0).err \notin {"malformed", "signature"}

\* C11: for the same token and the same clock, verifying a locally signed
\* session token accepts or rejects alike in the current state and in the
\* state that differs from it only in the stores (the stores as they are
\* at start-up): the outcome does not depend on USERS or TOKENS.
C11_VerificationIsStateless ==
  \A token \in {t \in VerifyTokens \cup LastToken : LocallySigned(t)} :
    \A g \in UserinfoAnswers(token) :
      get_current_user(token, USERS, g, now).raised
        = get_current_user(token, InitialUsers, g, now).raised

\* C12: a mock-token request under production configuration is answered
\* 403 and leaves USERS and TOKENS as they were; outside production it is
\* answered with a valid session token whose subject is the hardcoded test
\* identity "google-oauth2|123456789", and no call to the identity provider
\* is made.
C12_MockTokenOnlyOutsideProduction ==
  [][MockToken =>
       IF ENVIRONMENT = "production"
       THEN /\ resp'.status = 403 /\ resp'.token = NoToken
            /\ USERS' = USERS /\ TOKENS' = TOKENS
       ELSE /\ resp'.status = 200
            /\ resp'.token.kind = "jwt"
            /\ jwt_decode(resp'.token, SECRET_KEY, now).ok
            /\ resp'.token.sub = "google-oauth2|123456789"
            /\ flow' = flow]_vars

\* C13: after every login initiation that produced an authorization URL the
\* oauth_state cookie holds the state generated for it and is http-only,
\* has a max-age of at most 600 seconds, is SameSite=Lax, and is Secure
\* exactly when ENVIRONMENT is "production".
C13_LoginSetsGuardedStateCookie ==
  (resp.op = "login" /\ resp.kind \in {"json", "redirect"}) =>
    /\ resp.state \in GeneratedStates
    /\ jar.value = resp.state
    /\ jar.httponly
    /\ jar.max_age # NoMaxAge /\ jar.max_age <= 600
    /\ jar.samesite = "lax"
    /\ jar.secure <=> (ENVIRONMENT = "production")

\* the callback compared the state parameter with the cookie, found them
\* equal and went on to the token exchange
PassedStateValidation ==
  /\ ReachedStateCheck /\ Truthy(resp.state) /\ resp.state = resp.oauth_state
  /\ resp.exchange_calls > 0

\* C14: the response of every callback that passed state validation clears
\* the oauth_state cookie, whether it ends in token_exchange_failed, in
\* user_info_failed or in the issued token: afterwards the browser sends no
\* cookie equal to that state, so a replay of the state fails validation.
C14_StateIsSingleUse ==
  PassedStateValidation => (jar = NoCookie /\ CookieSent # resp.state)

(***************************************************************************)
(* Numbers of the metrics code.  Python ints and floats are modelled as    *)
(* exact rationals <<n, d>> in lowest terms with d > 0 (binary rounding of *)
(* floats is left out; the bounded inputs produce no rounding ties that a  *)
(* float would decide differently).                                        *)
(***************************************************************************)
RECURSIVE GCD(_, _)
GCD(a, b) == IF b = 0 THEN a ELSE GCD(b, a % b)
Abs(n) == IF n < 0 THEN -n ELSE n

\* the rational n / d (d # 0) in lowest terms
Q(n, d) ==
  LET g == GCD(Abs(n), Abs(d))
      s == IF d < 0 THEN -1 ELSE 1
  IN <<(s * n) \div g, (s * d) \div g>>
QInt(n) == <<n, 1>>
Zero == QInt(0)
QAdd(a, b) == Q(a[1] * b[2] + b[1] * a[2], a[2] * b[2])
QSub(a, b) == Q(a[1] * b[2] - b[1] * a[2], a[2] * b[2])
QMul(a, b) == Q(a[1] * b[1], a[2] * b[2])
QDiv(a, b) == Q(a[1] * b[2], a[2] * b[1])
QPositive(a) == a[1] > 0

\* round(x, ndigits) of Python: to the nearest multiple of 10^-ndigits,
\* a tie to the even one; scale = 10^ndigits
round(x, scale) ==
  LET num == x[1] * scale
      f == num \div x[2]
      r == num - f * x[2]
      k == IF 2 * r < x[2] THEN f
           ELSE IF 2 * r > x[2] THEN f + 1
           ELSE IF f % 2 = 0 THEN f ELSE f + 1
  IN Q(k, scale)
\* the scale of ndigits = 2
TwoDigits == 10 * 10

\* services/google_ads_client.py calculate_percentage_change(current, previous)
calculate_percentage_change(current, previous) ==
  IF previous = Zero THEN Zero
  ELSE round(QMul(QDiv(QSub(current, previous), previous), QInt(100)), TwoDigits)

\* services/google_ads_service.py calc_change(current, previous), the local
\* function of GoogleAdsService.get_ads_performance
calc_change(current, previous) ==
  IF previous = Zero
  THEN IF current = Zero THEN Zero ELSE QInt(100)
  ELSE QMul(QDiv(QSub(current, previous), previous), QInt(100))

(***************************************************************************)
(* Dates.  A date string is a string; a datetime at midnight is its day    *)
(* number (days since 1970-01-01), so that timedelta(days=k) is + k and    *)
(* (a - b).days is a - b.                                                  *)
(***************************************************************************)
DigitChars == "0123456789"
Char(s, i) == SubSeq(s, i, i)
IsDigit(c) == \E i \in 1..10 : Char(DigitChars, i) = c
DigitValue(c) == (CHOOSE i \in 1..10 : Char(DigitChars, i) = c) - 1
AllDigits(s) == \A i \in 1..Len(s) : IsDigit(Char(s, i))
RECURSIVE ToInt(_)
ToInt(s) ==
  IF Len(s) = 0 THEN 0
  ELSE 10 * ToInt(SubSeq(s, 1, Len(s) - 1)) + DigitValue(Char(s, Len(s)))
\* n in decimal, padded with zeros to at least `width` characters
RECURSIVE ToStr(_, _)
ToStr(n, width) ==
  IF n < 10 /\ width <= 1 THEN Char(DigitChars, n + 1)
  ELSE ToStr(n \div 10, width - 1) \o Char(DigitChars, (n % 10) + 1)

IsLeap(y) == (y % 4 = 0 /\ y % 100 # 0) \/ y % 400 = 0
DaysInMonth(y, m) ==
  IF m = 2 THEN (IF IsLeap(y) THEN 28 + 1 ELSE 28)
  ELSE IF m \in {4, 6, 9, 11} THEN 30 ELSE 30 + 1

\* the day number of the civil date y-m-d, and the civil date of a day number
DayNumber(y, m, d) ==
  LET yy == IF m <= 2 THEN y - 1 ELSE y
      era == yy \div 400
      yoe == yy - era * 400
      mp == IF m > 2 THEN m - 3 ELSE m + 9
      doy == (153 * mp + 2) \div 5 + d - 1
      doe == yoe * 365 + yoe \div 4 - yoe \div 100 + doy
  IN era * 146097 + doe - 719468
CivilDate(n) ==
  LET z == n + 719468
      era == z \div 146097
      doe == z - era * 146097
      yoe == (doe - doe \div 1460 + doe \div 36524 - doe \div 146096) \div 365
      doy == doe - (365 * yoe + yoe \div 4 - yoe \div 100)
      mp == (5 * doy + 2) \div 153
      d == doy - (153 * mp + 2) \div 5 + 1
      m == IF mp < 10 THEN mp + 3 ELSE mp - 9
      y == yoe + era * 400 + (IF m <= 2 THEN 1 ELSE 0)
  IN [y |-> y, m |-> m, d |-> d]

\* datetime.strptime(s, "%Y-%m-%d"): four digits of year, "-", a month of
\* one or two digits in 1..12, "-", a day of one or two digits that the month
\* has, and nothing else; ok = FALSE stands for the ValueError.
NoDay == -1
strptime(s) ==
  LET Shape(lm) ==
        /\ Len(s) >= 7 + lm /\ Len(s) <= 8 + lm
        /\ Char(s, 5) = "-" /\ Char(s, 6 + lm) = "-"
        /\ AllDigits(SubSeq(s, 1, 4))
        /\ AllDigits(SubSeq(s, 6, 5 + lm))
        /\ AllDigits(SubSeq(s, 7 + lm, Len(s)))
      Valid(lm) ==
        /\ Shape(lm)
        /\ LET y == ToInt(SubSeq(s, 1, 4))
               m == ToInt(SubSeq(s, 6, 5 + lm))
               d == ToInt(SubSeq(s, 7 + lm, Len(s)))
           IN y >= 1 /\ m \in 1..12 /\ d >= 1 /\ d <= DaysInMonth(y, m)
      lms == {lm \in {1, 2} : Valid(lm)}
  IN IF lms = {} THEN [ok |-> FALSE, day |-> NoDay]
     ELSE LET lm == CHOOSE x \in lms : TRUE
          IN [ok |-> TRUE,
              day |-> DayNumber(ToInt(SubSeq(s, 1, 4)), ToInt(SubSeq(s, 6, 5 + lm)),
                                ToInt(SubSeq(s, 7 + lm, Len(s))))]

\* day.strftime("%Y-%m-%d")
strftime(day) ==
  LET c == CivilDate(day)
  IN ToStr(c.y, 4) \o "-" \o ToStr(c.m, 2) \o "-" \o ToStr(c.d, 2)

(***************************************************************************)
(* The metrics-performance operation: get_ads_performance of               *)
(* services/google_ads_client.py and GoogleAdsService.get_ads_performance  *)
(* of services/google_ads_service.py.                                      *)
(***************************************************************************)
\* the day of `now` = 0, and today's day number
EpochDate == [y |-> 2024, m |-> 3, d |-> 1]
MinutesPerDay == 24 * 60
Today(clock) == DayNumber(EpochDate.y, EpochDate.m, EpochDate.d) + clock \div MinutesPerDay

\* str.replace(old, new): every occurrence, left to right
RECURSIVE str_replace(_, _, _)
str_replace(s, old, new) ==
  IF Len(old) = 0 \/ Len(s) < Len(old) THEN s
  ELSE IF SubSeq(s, 1, Len(old)) = old
       THEN new \o str_replace(SubSeq(s, Len(old) + 1, Len(s)), old, new)
       ELSE Char(s, 1) \o str_replace(SubSeq(s, 2, Len(s)), old, new)

\* the part of the GAQL query that depends on the dates
Query(start_date, end_date) ==
  "WHERE segments.date BETWEEN '" \o start_date \o "' AND '" \o end_date \o "'"

\* a row of the search response (row.metrics); rate is
\* conversions_from_interactions_rate / all_conversions_from_interactions_rate
Row(impressions, clicks, conversions, cost_micros, ctr, rate, cost_per_conversion) ==
  [impressions |-> impressions, clicks |-> clicks, conversions |-> conversions,
   cost_micros |-> cost_micros, ctr |-> ctr, rate |-> rate,
   cost_per_conversion |-> cost_per_conversion]

RECURSIVE QSum(_)
QSum(seq) == IF seq = << >> THEN Zero ELSE QAdd(Head(seq), QSum(Tail(seq)))
\* sum of F(row) over the rows
Total(rows, F(_)) == QSum([i \in 1..Len(rows) |-> F(rows[i])])

\* int(x): truncation toward zero
int(x) == IF x[1] >= 0 THEN QInt(x[1] \div x[2]) ELSE QInt(-((-x[1]) \div x[2]))

Metric(value, change) == [value |-> value, change |-> change]
NoMetric == Metric(Zero, Zero)
\* the keys of a dict that lacks its cost
MetricKeysWithoutCost ==
  {"impressions", "clicks", "conversions", "clickThroughRate", "conversionRate",
   "costPerConversion"}
MetricKeys ==
  {"impressions", "clicks", "conversions", "cost", "clickThroughRate", "conversionRate",
   "costPerConversion"}
NoMetrics == [k \in {} |-> NoMetric]

\* a previous period that ends on the day the current one starts
client_previous_period_overlapping(current_start, current_end) ==
  LET period_length == current_end - current_start
      prev_end == current_start
      prev_start == prev_end - period_length
  IN [prev_start |-> prev_start, prev_end |-> prev_end]
\* the previous period of the period start..end (day numbers)
\*   google_ads_client.py lines 92-96
client_previous_period(current_start, current_end) ==
  LET period_length == current_end - current_start
      prev_end == current_start - 1
      prev_start == prev_end - period_length
  IN [prev_start |-> prev_start, prev_end |-> prev_end]
\*   google_ads_service.py lines 145-147
service_previous_period(start_date_obj, end_date_obj) ==
  LET period_length == end_date_obj - start_date_obj
      prev_end_date_obj == start_date_obj - 1
      prev_start_date_obj == prev_end_date_obj - period_length
  IN [prev_start |-> prev_start_date_obj, prev_end |-> prev_end_date_obj]

\* google_ads_client.py lines 128-145: the sums over the rows and the
\* metrics derived from them
client_aggregate(rows) ==
  LET impressions == Total(rows, LAMBDA r : QInt(r.impressions))
      clicks == Total(rows, LAMBDA r : QInt(r.clicks))
      conversions == Total(rows, LAMBDA r : QInt(r.conversions))
      cost_micros == Total(rows, LAMBDA r : QInt(r.cost_micros))
      cost == QDiv(cost_micros, QInt(1000000))
  IN [impressions |-> impressions, clicks |-> clicks, conversions |-> conversions,
      cost |-> cost,
      ctr |-> IF QPositive(impressions)
              THEN QMul(QDiv(clicks, impressions), QInt(100)) ELSE Zero,
      conversion_rate |-> IF QPositive(clicks)
                          THEN QMul(QDiv(conversions, clicks), QInt(100)) ELSE Zero,
      cost_per_conversion |-> IF QPositive(conversions)
                              THEN QDiv(cost, conversions) ELSE Zero]

\* google_ads_service.py lines 194-223 (and 246-268, 296-306 for the
\* previous period): the sums, the weighted sums and the averages
service_aggregate(rows) ==
  LET total_impressions == Total(rows, LAMBDA r : QInt(r.impressions))
      total_clicks == Total(rows, LAMBDA r : QInt(r.clicks))
      total_conversions == Total(rows, LAMBDA r : QInt(r.conversions))
      total_cost_micros == Total(rows, LAMBDA r : QInt(r.cost_micros))
      total_weighted_ctr ==
        Total(rows, LAMBDA r : IF r.impressions > 0
                               THEN QInt(r.ctr * r.impressions) ELSE Zero)
      total_weighted_conv_rate ==
        Total(rows, LAMBDA r : IF r.clicks > 0 THEN QInt(r.rate * r.clicks) ELSE Zero)
      total_weighted_cost_per_conv ==
        Total(rows, LAMBDA r : IF r.conversions > 0
                               THEN QInt(r.cost_per_conversion * r.conversions) ELSE Zero)
  IN [impressions |-> total_impressions, clicks |-> total_clicks,
      conversions |-> total_conversions,
      cost |-> QDiv(total_cost_micros, QInt(1000000)),
      ctr |-> IF QPositive(total_impressions)
              THEN QDiv(total_weighted_ctr, total_impressions) ELSE Zero,
      conversion_rate |-> IF QPositive(total_clicks)
                          THEN QDiv(total_weighted_conv_rate, total_clicks) ELSE Zero,
      cost_per_conversion |-> IF QPositive(total_conversions)
                              THEN QDiv(total_weighted_cost_per_conv, total_conversions)
                              ELSE Zero]

\* what ga_service.search answers: the rows, or an exception
SearchRows(rows) == [kind |-> "rows", rows |-> rows]
SearchRaises == [kind |-> "raise", rows |-> << >>]

\* the outcome of one call: a dict of metrics, None, or an exception
PerformanceResult(req, clock, outcome, error, queries, dates, prev, metrics) ==
  [op |-> "performance", fn |-> req.fn, request |-> req, today |-> Today(clock),
   outcome |-> outcome, error |-> error, queries |-> queries,
   start_date |-> dates.start_date, end_date |-> dates.end_date,
   prev_start |-> prev.prev_start, prev_end |-> prev.prev_end,
   metrics |-> metrics]
NoDates == [start_date |-> None, end_date |-> None]
NoPrevious == [prev_start |-> None, prev_end |-> None]

\* services/google_ads_client.py get_ads_performance(start_date, end_date,
\* previous_period) at time `clock`
client_get_ads_performance(req, clock) ==
  LET Raise(error, queries, dates, prev) ==
        PerformanceResult(req, clock, "raise", error, queries, dates, prev, NoMetrics)
  IN
  IF ~req.available THEN Raise("client_unavailable", << >>, NoDates, NoPrevious)
  ELSE IF ~req.client_ok THEN Raise("client_failed", << >>, NoDates, NoPrevious)
  ELSE
    LET today == Today(clock)
        start_date == IF ~Truthy(req.start_date) THEN strftime(today - 30)
                      ELSE req.start_date
        end_date == IF ~Truthy(req.end_date) THEN strftime(today - 1) ELSE req.end_date
        dates == [start_date |-> start_date, end_date |-> end_date]
        current_start == strptime(start_date)
        current_end == strptime(end_date)
    IN
    IF req.previous_period /\ (~current_start.ok \/ ~current_end.ok)
    THEN \* ValueError of strptime, caught by `except Exception`
         Raise("fetch_error", << >>, dates, NoPrevious)
    ELSE
      LET p == client_previous_period(current_start.day, current_end.day)
          prev == IF req.previous_period
                  THEN [prev_start |-> strftime(p.prev_start),
                        prev_end |-> strftime(p.prev_end)]
                  ELSE NoPrevious
          query == Query(start_date, end_date)
          prev_query == Query(prev.prev_start, prev.prev_end)
          cur == client_aggregate(req.current.rows)
          old == client_aggregate(req.previous.rows)
          Change(current, previous) ==
            IF req.previous_period THEN calculate_percentage_change(current, previous)
            ELSE Zero
          metrics ==
            [k \in MetricKeys |->
               CASE k = "impressions" ->
                      Metric(int(cur.impressions), Change(cur.impressions, old.impressions))
                 [] k = "clicks" -> Metric(int(cur.clicks), Change(cur.clicks, old.clicks))
                 [] k = "conversions" ->
                      Metric(int(cur.conversions), Change(cur.conversions, old.conversions))
                 [] k = "cost" -> Metric(round(cur.cost, TwoDigits), Change(cur.cost, old.cost))
                 [] k = "clickThroughRate" ->
                      Metric(round(cur.ctr, TwoDigits), Change(cur.ctr, old.ctr))
                 [] k = "conversionRate" ->
                      Metric(round(cur.conversion_rate, TwoDigits),
                             Change(cur.conversion_rate, old.conversion_rate))
                 [] k = "costPerConversion" ->
                      Metric(IF QPositive(cur.conversions)
                             THEN round(cur.cost_per_conversion, TwoDigits) ELSE Zero,
                             Change(cur.cost_per_conversion, old.cost_per_conversion))]
      IN
      IF req.current.kind = "raise"
      THEN Raise("api_error", <<query>>, dates, prev)
      ELSE IF req.previous_period /\ req.previous.kind = "raise"
      THEN Raise("api_error", <<query, prev_query>>, dates, prev)
      ELSE PerformanceResult(req, clock, "dict", None,
                             IF req.previous_period THEN <<query, prev_query>> ELSE <<query>>,
                             dates, prev, metrics)

\* services/google_ads_service.py GoogleAdsService.get_ads_performance(
\* start_date, end_date, previous_period) at time `clock`
service_get_ads_performance(req, clock) ==
  LET ReturnNone(queries, dates, prev) ==
        PerformanceResult(req, clock, "None", None, queries, dates, prev, NoMetrics)
      today == Today(clock)
      end_date_obj == IF ~Truthy(req.end_date) THEN [ok |-> TRUE, day |-> today - 1]
                      ELSE strptime(req.end_date)
      end_date == IF ~Truthy(req.end_date) THEN strftime(end_date_obj.day)
                  ELSE req.end_date
      start_date_obj == IF ~Truthy(req.start_date) THEN [ok |-> TRUE, day |-> today - 30]
                        ELSE strptime(req.start_date)
      start_date == IF ~Truthy(req.start_date) THEN strftime(start_date_obj.day)
                    ELSE req.start_date
  IN
  IF ~req.client_ok THEN ReturnNone(<< >>, NoDates, NoPrevious)
  ELSE IF ~end_date_obj.ok THEN ReturnNone(<< >>, NoDates, NoPrevious)
  ELSE IF ~start_date_obj.ok
  THEN ReturnNone(<< >>, [start_date |-> None, end_date |-> end_date], NoPrevious)
  ELSE
    LET dates == [start_date |-> start_date, end_date |-> end_date]
        p == service_previous_period(start_date_obj.day, end_date_obj.day)
        prev == IF req.previous_period
                THEN [prev_start |-> strftime(p.prev_start),
                      prev_end |-> strftime(p.prev_end)]
                ELSE NoPrevious
        query == Query(start_date, end_date)
        \* the dates are the only digits of the query text
        prev_query == str_replace(str_replace(query, start_date, prev.prev_start),
                                  end_date, prev.prev_end)
        cur == service_aggregate(req.current.rows)
        old == service_aggregate(req.previous.rows)
        Change(current, previous) ==
          IF req.previous_period /\ req.previous.kind = "rows"
          THEN calc_change(current, previous) ELSE Zero
        result ==
          [k \in MetricKeys |->
             CASE k = "impressions" ->
                    Metric(cur.impressions, Change(cur.impressions, old.impressions))
               [] k = "clicks" -> Metric(cur.clicks, Change(cur.clicks, old.clicks))
               [] k = "conversions" ->
                    Metric(cur.conversions, Change(cur.conversions, old.conversions))
               [] k = "cost" -> Metric(cur.cost, Change(cur.cost, old.cost))
               [] k = "clickThroughRate" -> Metric(cur.ctr, Change(cur.ctr, old.ctr))
               [] k = "conversionRate" ->
                    Metric(cur.conversion_rate,
                           Change(cur.conversion_rate, old.conversion_rate))
               [] k = "costPerConversion" ->
                    Metric(cur.cost_per_conversion,
                           Change(cur.cost_per_conversion, old.cost_per_conversion))]
    IN
    IF req.current.kind = "raise" THEN ReturnNone(<<query>>, dates, prev)
    ELSE PerformanceResult(req, clock, "dict", None,
                           IF req.previous_period THEN <<query, prev_query>> ELSE <<query>>,
                           dates, prev, result)

(***************************************************************************)
(* The metrics code on its own: every request of a bounded set, answered   *)
(* at every day of the clock.                                              *)
(***************************************************************************)
\* start_date / end_date as a client may send them: omitted, empty, dates
\* with and without leading zeros, another format, a day February lacks
DateInputs ==
  {None, "", "2024-01-01", "2024-01-10", "2024-03-05", "2024-1-1", "2024-1-10",
   "01/10/2024", "2024-02-30"}

RowA == Row(100, 10, 2, 2500000, 2, 3, 5)
RowB == Row(300, 5, 1, 500000, 4, 1, 2)
RowNone == Row(0, 0, 0, 0, 0, 0, 0)
RowSeqs == {<< >>, <<RowA>>, <<RowA, RowB>>, <<RowNone>>}
CurrentSearches == {SearchRows(rows) : rows \in RowSeqs} \cup {SearchRaises}
PreviousSearches == {SearchRows(<<RowB>>), SearchRows(<< >>), SearchRaises}
PerformanceFunctions == {"get_ads_performance", "GoogleAdsService.get_ads_performance"}

PerformanceRequests ==
  \* the client is there: every combination of dates
  [op : {"request"}, fn : PerformanceFunctions,
   start_date : DateInputs, end_date : DateInputs, previous_period : {FALSE},
   available : {TRUE}, client_ok : {TRUE},
   current : CurrentSearches, previous : {SearchRows(<< >>)}]
  \cup
  [op : {"request"}, fn : PerformanceFunctions,
   start_date : DateInputs, end_date : DateInputs, previous_period : {TRUE},
   available : {TRUE}, client_ok : {TRUE},
   current : CurrentSearches, previous : PreviousSearches]
  \cup
  \* the google-ads package is missing, or the client cannot be created
  [op : {"request"}, fn : {"get_ads_performance"},
   start_date : {None, "2024-01-01"}, end_date : {None}, previous_period : BOOLEAN,
   available : {FALSE}, client_ok : {FALSE},
   current : {SearchRaises}, previous : {SearchRaises}]
  \cup
  [op : {"request"}, fn : PerformanceFunctions,
   start_date : {None, "2024-01-01"}, end_date : {None}, previous_period : BOOLEAN,
   available : {TRUE}, client_ok : {FALSE},
   current : {SearchRaises}, previous : {SearchRaises}]

\* current and previous values of a percentage change
ChangeValues == {Q(n, d) : n \in -1..5, d \in {1, 3}}
ChangeFunctions == {"calculate_percentage_change", "calc_change"}
ChangeRequests ==
  [op : {"change_request"}, fn : ChangeFunctions,
   current : ChangeValues, previous : ChangeValues]

\* requests of GET /google-ads/performance (endpoints/google_ads.py)
HttpRequests ==
  [op : {"http_request"}, fn : {"ads_performance"},
   start_date : {None, "2024-01-01", "01/10/2024"}, end_date : {None, "2024-01-10"},
   previous_period : {FALSE}, available : {TRUE}, client_ok : {TRUE},
   current : CurrentSearches, previous : {SearchRows(<< >>)}]
  \cup
  [op : {"http_request"}, fn : {"ads_performance"},
   start_date : {None, "2024-01-01", "01/10/2024"}, end_date : {None, "2024-01-10"},
   previous_period : {TRUE}, available : {TRUE}, client_ok : {TRUE},
   current : CurrentSearches, previous : PreviousSearches]
  \cup
  [op : {"http_request"}, fn : {"ads_performance"},
   start_date : {None, "2024-01-01"}, end_date : {None}, previous_period : BOOLEAN,
   available : BOOLEAN, client_ok : {FALSE},
   current : CurrentSearches, previous : {SearchRows(<< >>)}]

\* Neither the application mounted nor ENVIRONMENT is read by this code.
InitAds ==
  /\ app = "routes"
  /\ ENVIRONMENT = "development"
  /\ now = 0
  /\ USERS = InitialUsers
  /\ TOKENS = << >>
  /\ jar = NoCookie
  /\ flow = [p \in Procs |-> IdleFlow]
  /\ \/ resp \in PerformanceRequests
     \/ resp \in ChangeRequests
     \/ resp \in HttpRequests

ChangeResult(req, result) ==
  [op |-> "change", fn |-> req.fn, current |-> req.current, previous |-> req.previous,
   result |-> result]

CalculatePercentageChange ==
  /\ resp.op = "change_request" /\ resp.fn = "calculate_percentage_change"
  /\ resp' = ChangeResult(resp, calculate_percentage_change(resp.current, resp.previous))
  /\ UNCHANGED <<app, ENVIRONMENT, now, USERS, TOKENS, jar, flow>>

CalcChange ==
  /\ resp.op = "change_request" /\ resp.fn = "calc_change"
  /\ resp' = ChangeResult(resp, calc_change(resp.current, resp.previous))
  /\ UNCHANGED <<app, ENVIRONMENT, now, USERS, TOKENS, jar, flow>>

ClientPerformance ==
  /\ resp.op = "request" /\ resp.fn = "get_ads_performance"
  /\ resp' = client_get_ads_performance(resp, now)
  /\ UNCHANGED <<app, ENVIRONMENT, now, USERS, TOKENS, jar, flow>>

ServicePerformance ==
  /\ resp.op = "request" /\ resp.fn = "GoogleAdsService.get_ads_performance"
  /\ resp' = service_get_ads_performance(resp, now)
  /\ UNCHANGED <<app, ENVIRONMENT, now, USERS, TOKENS, jar, flow>>

\* google_ads_client.py get_ads_performance_with_fallback: the real data, no
\* fallback
get_ads_performance_with_fallback(req, clock) == client_get_ads_performance(req, clock)

\* models/schemas.py GoogleAdsPerformance(**performance_data): the seven
\* optional MetricItem fields
GoogleAdsPerformance(performance_data) ==
  [k \in MetricKeys \cap DOMAIN performance_data |->
     Metric(performance_data[k].value, performance_data[k].change)]

NoDetail == [error |-> None, message |-> None, help |-> None]
HttpResponse(req, status_code, detail, body, call) ==
  [op |-> "http_performance", request |-> req, status |-> status_code, detail |-> detail,
   body |-> body, call |-> call]

\* an ads_performance that answers an exception of the client with a bundle
\* of zeros
endpoints_ads_performance_degrading(req, clock) ==
  LET Answer(performance_data) ==
        IF performance_data.outcome = "raise"
        THEN HttpResponse(req, 200, NoDetail, [k \in MetricKeys |-> NoMetric], performance_data)
        ELSE HttpResponse(req, 200, NoDetail, GoogleAdsPerformance(performance_data.metrics),
                          performance_data)
  IN CHOOSE r \in {Answer(d) : d \in {get_ads_performance_with_fallback(req, clock)}} : TRUE

\* endpoints/google_ads.py ads_performance, lines 42-58
endpoints_ads_performance(req, clock) ==
  LET Answer(performance_data) ==
        IF performance_data.outcome = "raise"
        THEN HttpResponse(req, 500,
                          [error |-> "Failed to retrieve Google Ads performance data",
                           message |-> performance_data.error,
                           help |-> "Please verify your Google Ads API credentials and ensure the API is properly configured."],
                          NoMetrics, performance_data)
        ELSE HttpResponse(req, 200, NoDetail, GoogleAdsPerformance(performance_data.metrics),
                          performance_data)
  \* performance_data = get_ads_performance_with_fallback(...): called once
  IN CHOOSE r \in {Answer(d) : d \in {get_ads_performance_with_fallback(req, clock)}} : TRUE

EndpointPerformance ==
  /\ resp.op = "http_request"
  /\ resp' = endpoints_ads_performance(resp, now)
  /\ UNCHANGED <<app, ENVIRONMENT, now, USERS, TOKENS, jar, flow>>

NextAds ==
  \/ CalculatePercentageChange \/ CalcChange
  \/ ClientPerformance \/ ServicePerformance \/ EndpointPerformance
  \/ Tick

SpecAds == InitAds /\ [][NextAds]_vars

(***************************************************************************)
(* Properties of the metrics code.                                         *)
(***************************************************************************)
\* C15: for every current and every previous # 0, calculate_percentage_change
\* and calc_change both return ((current - previous) / previous) * 100
\* rounded to two decimals.
C15_ChangeIsRoundedRatio ==
  (resp.op = "change" /\ resp.previous # Zero) =>
    resp.result =
      round(QMul(QDiv(QSub(resp.current, resp.previous), resp.previous), QInt(100)),
            TwoDigits)

\* C16: with previous = 0 a percentage change is one policy value, whatever
\* current is (0 or not), and calculate_percentage_change and calc_change
\* return that same value.
C16_ZeroDenominatorPolicyIsOne ==
  (resp.op = "change" /\ resp.previous = Zero) =>
    LET a == calculate_percentage_change(resp.current, Zero)
        b == calc_change(resp.current, Zero)
    IN /\ resp.result \in {a, b}
       /\ a = b
       /\ a = calculate_percentage_change(Zero, Zero)
       /\ b = calc_change(Zero, Zero)

\* the operation got its client and was given dates that parse
ClientReady ==
  resp.op = "performance" /\ resp.request.available /\ resp.request.client_ok
Supplied(date) == Truthy(date)
\* a date string as strftime writes it
Canonical(date) == strptime(date).ok /\ strftime(strptime(date).day) = date

\* C17: when previous_period is requested with valid start < end, the
\* previous period ends the day before start and spans as many days as the
\* current one: prev_end = start - 1 day and prev_end - prev_start =
\* end - start (2024-01-01..2024-01-10 gives 2023-12-22..2023-12-31); for
\* dates written as YYYY-MM-DD the second query asks for exactly that period.
C17_PreviousPeriodAbuts ==
  (/\ ClientReady /\ resp.request.previous_period
   /\ Supplied(resp.request.start_date) /\ Supplied(resp.request.end_date)
   /\ strptime(resp.request.start_date).ok /\ strptime(resp.request.end_date).ok
   /\ strptime(resp.request.start_date).day < strptime(resp.request.end_date).day)
  =>
    LET start == strptime(resp.request.start_date).day
        end == strptime(resp.request.end_date).day
        prev_start == strptime(resp.prev_start)
        prev_end == strptime(resp.prev_end)
    IN /\ prev_start.ok /\ prev_end.ok
       /\ prev_end.day = start - 1
       /\ prev_end.day - prev_start.day = end - start
       /\ (resp.request.start_date = "2024-01-01" /\ resp.request.end_date = "2024-01-10")
            => (resp.prev_start = "2023-12-22" /\ resp.prev_end = "2023-12-31")
       /\ (/\ Len(resp.queries) = 2
           /\ Canonical(resp.request.start_date) /\ Canonical(resp.request.end_date))
            => resp.queries[2] = Query(strftime(start - 1 - (end - start)), strftime(start - 1))
\* the example of the specification, answered with both periods queried
C17_Witness ==
  /\ ClientReady /\ resp.request.previous_period /\ resp.outcome = "dict"
  /\ resp.request.start_date = "2024-01-01" /\ resp.request.end_date = "2024-01-10"
  /\ resp.prev_start = "2023-12-22" /\ resp.prev_end = "2023-12-31"
  /\ Len(resp.queries) = 2

\* C18: an omitted end_date resolves to yesterday, and an omitted
\* start_date resolves to the day 30 days before the resolved end date,
\* whether end_date was supplied or omitted.
C18_DefaultDates ==
  (/\ ClientReady
   /\ resp.request.end_date # None => strptime(resp.request.end_date).ok
   /\ resp.request.start_date # None => strptime(resp.request.start_date).ok)
  =>
    /\ resp.request.end_date = None => resp.end_date = strftime(resp.today - 1)
    /\ resp.request.start_date = None =>
         /\ strptime(resp.end_date).ok
         /\ resp.start_date = strftime(strptime(resp.end_date).day - 30)

\* a supplied date that does not parse as %Y-%m-%d
Malformed(date) == Supplied(date) /\ ~strptime(date).ok

\* C19: when a supplied start_date or end_date does not parse as
\* YYYY-MM-DD, the operation fails before any upstream query is issued, with
\* previous_period true and false alike: no metrics are returned, and no
\* query carries the malformed date or a default in its place.
C19_MalformedDateFails ==
  (ClientReady /\ (Malformed(resp.request.start_date) \/ Malformed(resp.request.end_date)))
    => (resp.outcome \in {"raise", "None"} /\ resp.queries = << >>)

\* sum(V(row) * W(row)) / sum(W(row)), and 0 when sum(W(row)) is 0
WeightedAverage(rows, V(_), W(_)) ==
  LET weight == Total(rows, LAMBDA r : QInt(W(r)))
  IN IF weight = Zero THEN Zero
     ELSE QDiv(Total(rows, LAMBDA r : QInt(V(r) * W(r))), weight)
\* the value, as it is or rounded to two decimals
IsValue(x, expected) == x = expected \/ x = round(expected, TwoDigits)

\* C20: for every sequence of rows the click-through rate returned is
\* sum(ctr * impressions) / sum(impressions), the conversion rate is the
\* rows' rate weighted by clicks, the cost per conversion the rows' cost per
\* conversion weighted by conversions, and each is 0 when its weights sum
\* to 0 (rows {100, 2.0} and {300, 4.0} give a click-through rate of 3.5).
C20_RatesAreWeightedAverages ==
  (resp.op = "performance" /\ resp.outcome = "dict") =>
    LET rows == resp.request.current.rows IN
    /\ IsValue(resp.metrics["clickThroughRate"].value,
               WeightedAverage(rows, LAMBDA r : r.ctr, LAMBDA r : r.impressions))
    /\ IsValue(resp.metrics["conversionRate"].value,
               WeightedAverage(rows, LAMBDA r : r.rate, LAMBDA r : r.clicks))
    /\ IsValue(resp.metrics["costPerConversion"].value,
               WeightedAverage(rows, LAMBDA r : r.cost_per_conversion,
                               LAMBDA r : r.conversions))
    /\ rows = <<RowA, RowB>> => resp.metrics["clickThroughRate"].value = Q(35, 10)

\* the client could not be constructed, or the current-period query raised
UpstreamFailed(req) ==
  ~req.available \/ ~req.client_ok \/ req.current.kind = "raise"

DatesUsable(req) ==
  /\ Supplied(req.start_date) => strptime(req.start_date).ok
  /\ Supplied(req.end_date) => strptime(req.end_date).ok

\* C22: when previous_period is requested, the current-period query answers
\* and the previous-period query raises, the operation still returns its
\* metrics: all 7 keys, each with change = 0.
C22_PreviousFailureDegrades ==
  (/\ ClientReady /\ DatesUsable(resp.request)
   /\ resp.request.previous_period
   /\ resp.request.current.kind = "rows" /\ resp.request.previous.kind = "raise")
  =>
    /\ resp.outcome = "dict"
    /\ DOMAIN resp.metrics = MetricKeys
    /\ \A k \in MetricKeys : resp.metrics[k].change = Zero

\* C23: every successful result, whatever rows the upstream returned (none
\* and all-zero rows included), has exactly the 7 keys impressions, clicks,
\* conversions, cost, clickThroughRate, conversionRate and costPerConversion,
\* each with a value and a change, and every change is 0 when
\* previous_period was not requested.
C23_SevenMetricsAlways ==
  LET Seven == {"impressions", "clicks", "conversions", "cost", "clickThroughRate",
                "conversionRate", "costPerConversion"}
      Complete(metrics, req) ==
        /\ DOMAIN metrics = Seven
        /\ \A k \in Seven :
             /\ DOMAIN metrics[k] = {"value", "change"}
             /\ ~req.previous_period => metrics[k].change = <<0, 1>>
  IN /\ (resp.op = "performance" /\ resp.outcome = "dict")
          => Complete(resp.metrics, resp.request)
     /\ (resp.op = "http_performance" /\ resp.status = 200)
          => Complete(resp.body, resp.request)
\* a successful result for a response of all-zero rows
C23_Witness ==
  /\ resp.op = "performance" /\ resp.outcome = "dict"
  /\ resp.request.current.rows = <<RowNone>> /\ ~resp.request.previous_period
  /\ resp.metrics["cost"] = [value |-> <<0, 1>>, change |-> <<0, 1>>]

StepsInOrder(f) ==
  /\ f.exchange_calls <= 1 /\ f.profile_calls <= 1
  /\ f.exchange_calls > 0 => (Truthy(f.state) /\ f.state = f.oauth_state)
  /\ f.profile_calls > 0 => (f.exchange_calls = 1 /\ f.exchange_result = "dict")

\* C25: in one callback execution the token exchange comes after the state
\* validation, the profile fetch only after a successful exchange, the store
\* writes and the session issuance only after a successful profile fetch;
\* each upstream call is made at most once, and the execution ends either
\* Issued or Failed with a reason, never both.
C25_CallbackStepOrder ==
  /\ \A p \in Procs : StepsInOrder(flow[p])
  /\ IsCallback =>
       /\ StepsInOrder(resp)
       /\ Succeeded =>
            /\ resp.profile_calls = 1 /\ resp.profile_result = "dict"
            /\ resp.user_id \in DOMAIN USERS /\ resp.user_id \in DOMAIN TOKENS
       /\ Succeeded <=> resp.reason = None
       /\ (resp.token # NoToken \/ resp.access_cookie # Absent) => Succeeded


(* C26: when two successful callbacks of routes/auth.py for one external   *)
(* id interleave at their awaits, every step that writes the Identity or   *)
(* the Upstream Token Record of an id writes both of them, from the data   *)
(* of the one callback that completes in that step, and touches no other   *)
(* id; so the two records of an id always come from the callback that      *)
(* wrote last, never the profile of one with the token of the other.       *)
C26_StoresChangeTogether ==
  [][(USERS' # USERS \/ TOKENS' # TOKENS) =>
       LET id == resp'.user_id IN
       /\ resp'.op = "callback" /\ resp'.kind = "redirect" /\ resp'.reason = None
       /\ id \in DOMAIN USERS' /\ id \in DOMAIN TOKENS'
       /\ USERS'[id] = routes_identity(id, resp'.user_info)
       /\ TOKENS'[id] = routes_token_record(resp'.token_data)
       /\ \A k \in DOMAIN USERS : k # id => (k \in DOMAIN USERS' /\ USERS'[k] = USERS[k])
       /\ \A k \in DOMAIN TOKENS : k # id => (k \in DOMAIN TOKENS' /\ TOKENS'[k] = TOKENS[k])
       /\ DOMAIN USERS' = DOMAIN USERS \cup {id}
       /\ DOMAIN TOKENS' = DOMAIN TOKENS \cup {id}]_vars

\* one callback has written both records of an id while the other, which
\* exchanged its code for different token data, has yet to fetch its profile
C26_Witness ==
  /\ Succeeded
  /\ resp.user_id = NamespacedId("u1")
  /\ USERS[resp.user_id] = routes_identity(resp.user_id, resp.user_info)
  /\ TOKENS[resp.user_id] = routes_token_record(resp.token_data)
  /\ \E q \in RaceProcs :
       /\ flow[q].pc = "resolving"
       /\ flow[q].token_data.access_token # resp.token_data.access_token


(* C27: get_current_user verifies the signature and expiry locally first   *)
(* and calls verify_google_token exactly when that local verification      *)
(* raised a JWTError; a token that verifies locally but carries no subject *)
(* or a subject that is not in USERS is answered 401 with no call to the   *)
(* identity provider and no change of USERS, and one whose subject is      *)
(* known is answered with that Identity.                                   *)
C27_LocalVerificationFirst ==
  [][(resp'.op = "verify" /\ Verify) =>
       LET payload == jwt_decode(resp'.token, SECRET_KEY, now) IN
       /\ resp'.upstream_calls = (IF payload.ok THEN 0 ELSE 1)
       /\ (resp'.jwt_error = None) <=> payload.ok
       /\ payload.ok =>
            /\ USERS' = USERS
            /\ IF payload.sub = None \/ payload.sub \notin DOMAIN USERS
               THEN resp'.status = 401 /\ resp'.user = NoUser
               ELSE resp'.status = 200 /\ resp'.user = USERS[payload.sub]]_vars

\* a token signed by this system for a subject that USERS does not hold was
\* rejected without a call to the identity provider
C27_Witness ==
  /\ resp.op = "verify" /\ resp.status = 401
  /\ resp.token.kind = "jwt" /\ resp.token.sub # None
  /\ resp.token.sub \notin DOMAIN USERS
  /\ resp.jwt_error = None
  /\ resp.upstream_calls = 0


(* C28: for a subject that is in USERS and a positive lifetime, the token  *)
(* of create_access_token(subject, lifetime) presented to get_current_user *)
(* up to its expiry (issue time plus lifetime) is answered with exactly    *)
(* the Identity stored for that subject, and presented after its expiry it *)
(* is rejected, the identity provider rejecting it too; USERS is the same  *)
(* after either.                                                           *)
C28_IssueVerifyRoundTrip ==
  (/\ resp.op = "round_trip"
   /\ resp.sub \in DOMAIN resp.stored
   /\ ~resp.expires_delta.none /\ resp.expires_delta.minutes > 0)
    => /\ USERS = resp.stored
       /\ IF resp.verified_at <= resp.issued_at + resp.expires_delta.minutes
          THEN ~resp.raised /\ resp.user = resp.stored[resp.sub] /\ resp.user.id = resp.sub
          ELSE resp.raised /\ resp.user = NoUser

\* a token of a stored subject with a lifetime shorter than the configured
\* one was verified after its expiry
C28_Witness ==
  /\ resp.op = "round_trip"
  /\ resp.sub = NamespacedId("u1") /\ resp.sub \in DOMAIN resp.stored
  /\ ~resp.expires_delta.none
  /\ resp.expires_delta.minutes > 0
  /\ resp.expires_delta.minutes < ACCESS_TOKEN_EXPIRE_MINUTES
  /\ resp.verified_at > resp.issued_at + resp.expires_delta.minutes
  /\ resp.raised


(* C29: a step of a callback handler after which the callback has ended in *)
(* a failure (the provider's error, a missing code, a state mismatch, a    *)
(* failed exchange, a failed profile fetch, or an exception) leaves USERS  *)
(* and TOKENS as they were, and the failure response carries no session    *)
(* token, neither in its URL nor in a cookie.                              *)
C29_FailedCallbackChangesNothing ==
  [][(/\ resp'.op = "callback"
      /\ ~(resp'.kind = "redirect" /\ resp'.path = "/dashboard")
      /\ Callback)
       => /\ USERS' = USERS
          /\ TOKENS' = TOKENS
          /\ resp'.token = NoToken
          /\ resp'.access_cookie = Absent]_vars

\* the exchange succeeded, the profile fetch failed, and the stores hold
\* nothing of that callback
C29_Witness ==
  /\ FailedWith("user_info_failed")
  /\ resp.exchange_result = "dict"
  /\ resp.token = NoToken
  /\ TOKENS = << >>
  /\ USERS = InitialUsers


(* C30: a verification that falls back to verify_google_token leaves       *)
(* TOKENS unchanged and every Identity that USERS already held as it was;  *)
(* it adds at most the Identity of the external id the provider answered   *)
(* with, and only when that id was not in USERS; when the upstream         *)
(* verification fails, USERS is unchanged too and no user is returned.     *)
C30_UpstreamVerificationOnlyAdds ==
  [][(resp'.op = "verify" /\ resp'.upstream_calls = 1 /\ Verify) =>
       /\ TOKENS' = TOKENS
       /\ \A k \in DOMAIN USERS : k \in DOMAIN USERS' /\ USERS'[k] = USERS[k]
       /\ IF resp'.user = NoUser
          THEN USERS' = USERS /\ resp'.status = 401
          ELSE /\ DOMAIN USERS' = DOMAIN USERS \cup {resp'.user.id}
               /\ USERS'[resp'.user.id] = resp'.user
               /\ resp'.status = 200]_vars

\* an upstream token was accepted for an external id whose Identity, stored
\* by an earlier callback, differs from the one the fallback would create
C30_Witness ==
  /\ resp.op = "verify" /\ resp.upstream_calls = 1 /\ resp.status = 200
  /\ resp.user.id = NamespacedId("u1")
  /\ resp.user.id \in DOMAIN USERS /\ USERS[resp.user.id] = resp.user
  /\ resp.user.picture = None
  /\ NamespacedId("u1") \in DOMAIN TOKENS

====
